---- MODULE Spec2Model ----
(***************************************************************************)
(* Kanban backend: TodoController + ZodValidationPipe + TodoService over   *)
(* the Prisma "Todo" table (PostgreSQL).                                   *)
(*                                                                         *)
(* Strings that the code inspects character-wise (title) are sequences of  *)
(* one-character strings.  A JSON body is a function from the keys that    *)
(* are present to typed JSON values.  A nullable column is a sequence of   *)
(* length 0 (NULL) or 1.                                                   *)
(***************************************************************************)
EXTENDS Integers, Sequences, FiniteSets, TLC

VARIABLES
    todos,    \* the rows of the Todo table
    seq,      \* next value of the id sequence
    now,      \* the clock
    req,      \* the body of the last request (SpecInput records it)
    resp,     \* the response to it
    created,  \* history: the ids successful creates have returned
    deleted,  \* history: the ids successful deletes have removed
    inflight  \* the requests served side by side (SpecConc, SpecRace)

vars == <<todos, seq, now, req, resp, created, deleted, inflight>>

----------------------------------------------------------------------------
(* Bounds of the model                                                     *)

MaxId == 3        \* ids the sequence hands out under Spec: 1..MaxId
MaxTimedId == 1   \* ids the sequence hands out under SpecClock
MaxClock == 1     \* clock readings under SpecClock: 0..MaxClock
MaxInputId == 1   \* ids the sequence hands out under SpecInput
MaxConcId == 1    \* ids the sequence hands out under SpecConc
MaxCalls == 2     \* requests served side by side (SpecConc, SpecRace)
MaxScriptId == 2  \* ids the sequence hands out under SpecScript
MaxHttpId == 2    \* ids the sequence hands out under SpecHttp

----------------------------------------------------------------------------
(* JSON values                                                             *)

Str(s) == [type |-> "string", val |-> s]
Num(n) == [type |-> "number", val |-> n, integral |-> TRUE]
\* the non-integral number n + 1/2
Half(n) == [type |-> "number", val |-> n, integral |-> FALSE]

IsString(v) == v.type = "string"
IsNumber(v) == v.type = "number"

----------------------------------------------------------------------------
(* TaskStatus: the enum, in declaration order                              *)

TaskStatus == <<"TODO", "IN_PROGRESS", "DONE">>

TaskStatusValues == {TaskStatus[i] : i \in 1..Len(TaskStatus)}

\* variant: the names ordered as text
StatusOrdAlphabetical(s) ==
    CASE s = "DONE" -> 1
      [] s = "IN_PROGRESS" -> 2
      [] s = "TODO" -> 3

\* PostgreSQL orders enum values by their place in CREATE TYPE
StatusOrd(s) == CHOOSE i \in 1..Len(TaskStatus) : TaskStatus[i] = s

----------------------------------------------------------------------------
(* createTodoSchema and ZodValidationPipe                                  *)

SchemaKeys == {"title", "description", "status", "position"}

Has(body, k) == k \in DOMAIN body

\* title: z.string().min(1)
TitleOk(body) ==
    /\ Has(body, "title")
    /\ IsString(body["title"])
    /\ Len(body["title"].val) >= 1

\* description: z.string().optional()
DescriptionOk(body) ==
    Has(body, "description") => IsString(body["description"])

\* variant: any string passes as a status
StatusAnyString(body) ==
    Has(body, "status") => IsString(body["status"])

\* status: TaskStatus.optional()
StatusOk(body) ==
    Has(body, "status") =>
        /\ IsString(body["status"])
        /\ body["status"].val \in TaskStatusValues

\* position: z.number().int().optional().default(0)
PositionOk(body) ==
    Has(body, "position") =>
        /\ IsNumber(body["position"])
        /\ body["position"].integral

\* variant: the schema without .strict()
StrictIgnored(body) == TRUE

\* .strict(): no key outside the schema
StrictOk(body) == DOMAIN body \subseteq SchemaKeys

SchemaAccepts(body) ==
    /\ TitleOk(body)
    /\ DescriptionOk(body)
    /\ StatusOk(body)
    /\ PositionOk(body)
    /\ StrictOk(body)

\* the value schema.parse returns: the recognised keys, position defaulted
Parsed(body) ==
    [k \in (DOMAIN body \cap SchemaKeys) \cup {"position"} |->
        IF k = "position" /\ ~Has(body, "position") THEN 0 ELSE body[k].val]

----------------------------------------------------------------------------
(* The Todo table                                                          *)

Ids(rows) == {r.id : r \in rows}

RowOf(rows, id) == CHOOSE r \in rows : r.id = id

\* an undefined argument is <<>>, a supplied one <<value>>
Field(body, k) == IF Has(body, k) THEN <<body[k]>> ELSE <<>>

\* variant: the id computed from the number of rows
InsertRowReusingIds(rows, nextval, clock, dto) ==
    [id |-> Cardinality(rows) + 1,
     title |-> dto.title,
     description |-> IF Has(dto, "description") THEN <<dto.description>> ELSE <<>>,
     status |-> IF Has(dto, "status") THEN dto.status ELSE "TODO",
     position |-> IF Has(dto, "position") THEN dto.position ELSE 0,
     createdAt |-> clock,
     updatedAt |-> clock]

\* variant: status and position not passed on to the insert
InsertRowIgnoringInput(rows, nextval, clock, dto) ==
    [id |-> nextval,
     title |-> dto.title,
     description |-> IF Has(dto, "description") THEN <<dto.description>> ELSE <<>>,
     status |-> "TODO",
     position |-> 0,
     createdAt |-> clock,
     updatedAt |-> clock]

\* variant: the position is the next free one of the column
InsertRowNextPosition(rows, nextval, clock, dto) ==
    LET status == IF Has(dto, "status") THEN dto.status ELSE "TODO"
        column == {r.position : r \in {x \in rows : x.status = status}}
    IN  [id |-> nextval,
         title |-> dto.title,
         description |-> IF Has(dto, "description") THEN <<dto.description>>
                         ELSE <<>>,
         status |-> status,
         position |-> IF column = {} THEN 0
                      ELSE (CHOOSE p \in column : \A q \in column : q <= p) + 1,
         createdAt |-> clock,
         updatedAt |-> clock]

\* variant: the id is the lowest one no row has
InsertRowLowestFreeId(rows, nextval, clock, dto) ==
    [id |-> CHOOSE i \in 1..(Cardinality(rows) + 1) :
                /\ i \notin Ids(rows)
                /\ \A j \in 1..(i - 1) : j \in Ids(rows),
     title |-> dto.title,
     description |-> IF Has(dto, "description") THEN <<dto.description>> ELSE <<>>,
     status |-> IF Has(dto, "status") THEN dto.status ELSE "TODO",
     position |-> IF Has(dto, "position") THEN dto.position ELSE 0,
     createdAt |-> clock,
     updatedAt |-> clock]

\* prisma.todo.create: INSERT with the column defaults of the table;
\* id from the autoincrement sequence, createdAt now(), updatedAt @updatedAt
InsertRow(rows, nextval, clock, dto) ==
    [id |-> nextval,
     title |-> dto.title,
     description |-> IF Has(dto, "description") THEN <<dto.description>> ELSE <<>>,
     status |-> IF Has(dto, "status") THEN dto.status ELSE "TODO",
     position |-> IF Has(dto, "position") THEN dto.position ELSE 0,
     createdAt |-> clock,
     updatedAt |-> clock]

\* variant: the arguments of the update are not checked
UpdateArgsUnchecked(status, position) == TRUE

\* Prisma checks the arguments of a query before it reaches the database:
\* status must be a TaskStatus or undefined, position an Int or undefined
UpdateArgsOk(status, position) ==
    /\ status # <<>> =>
          /\ IsString(status[1])
          /\ status[1].val \in TaskStatusValues
    /\ position # <<>> =>
          /\ IsNumber(position[1])
          /\ position[1].integral

\* variant: position left out of the update
UpdatedRowStatusOnly(r, status, position, clock) ==
    [r EXCEPT !.status = IF status # <<>> THEN status[1].val ELSE @,
              !.updatedAt = clock]

\* variant: createdAt stamped again by the update
UpdatedRowResettingCreatedAt(r, status, position, clock) ==
    [r EXCEPT !.status = IF status # <<>> THEN status[1].val ELSE @,
              !.position = IF position # <<>> THEN position[1].val ELSE @,
              !.createdAt = clock,
              !.updatedAt = clock]

\* UPDATE ... SET of the supplied columns, and updatedAt
UpdatedRow(r, status, position, clock) ==
    [r EXCEPT !.status = IF status # <<>> THEN status[1].val ELSE @,
              !.position = IF position # <<>> THEN position[1].val ELSE @,
              !.updatedAt = clock]

----------------------------------------------------------------------------
(* TodoService: each method returns what it resolves to or throws, and the *)
(* table and sequence it leaves behind                                     *)

Returns(value, rows, nextval) ==
    [ok |-> TRUE, value |-> value, todos |-> rows, seq |-> nextval]

Throws(exception, rows, nextval) ==
    [ok |-> FALSE, exception |-> exception, todos |-> rows, seq |-> nextval]

TodoService_create(dto) ==
    LET row == InsertRow(todos, seq, now, dto)
    IN  Returns(row, todos \cup {row}, seq + 1)

\* variant: position is the first sort key, status the second
RowLessPositionFirst(a, b) ==
    \/ a.position < b.position
    \/ /\ a.position = b.position
       /\ StatusOrd(a.status) < StatusOrd(b.status)

\* orderBy: [{status: 'asc'}, {position: 'asc'}]
RowLess(a, b) ==
    \/ StatusOrd(a.status) < StatusOrd(b.status)
    \/ /\ StatusOrd(a.status) = StatusOrd(b.status)
       /\ a.position < b.position

RECURSIVE InsertSorted(_, _)
InsertSorted(sorted, r) ==
    IF sorted = <<>> THEN <<r>>
    ELSE IF RowLess(r, Head(sorted)) THEN <<r>> \o sorted
    ELSE <<Head(sorted)>> \o InsertSorted(Tail(sorted), r)

RECURSIVE OrderBy(_)
OrderBy(scan) ==
    IF scan = <<>> THEN <<>>
    ELSE InsertSorted(OrderBy(SubSeq(scan, 1, Len(scan) - 1)), scan[Len(scan)])

\* the orders in which the table scan may deliver the rows
ScanOrders(rows) ==
    {s \in [1..Cardinality(rows) -> rows] :
        \A i, j \in 1..Cardinality(rows) : i # j => s[i] # s[j]}

\* what findMany may return for a table
ListAllOf(rows) == {OrderBy(scan) : scan \in ScanOrders(rows)}

\* variant: the list is cut after two rows
TodoService_findAllFirstPage(scan) ==
    Returns(SubSeq(OrderBy(scan), 1, IF Len(scan) < 2 THEN Len(scan) ELSE 2),
            todos, seq)

TodoService_findAll(scan) == Returns(OrderBy(scan), todos, seq)

\* variant: upsert, a missing row is created
TodoService_updateStatusUpsert(id, status, position) ==
    IF ~UpdateArgsOk(status, position)
    THEN Throws("PrismaClientValidationError", todos, seq)
    ELSE LET old == IF id \in Ids(todos) THEN RowOf(todos, id)
                    ELSE [id |-> id, title |-> <<"a">>, description |-> <<>>,
                          status |-> "TODO", position |-> 0,
                          createdAt |-> now, updatedAt |-> now]
             new == UpdatedRow(old, status, position, now)
         IN  Returns(new, (todos \ {old}) \cup {new}, seq)

\* variant: a move back to an earlier column is refused
TodoService_updateStatusForwardOnly(id, status, position) ==
    IF ~UpdateArgsOk(status, position)
    THEN Throws("PrismaClientValidationError", todos, seq)
    ELSE IF id \notin Ids(todos)
    THEN Throws("P2025", todos, seq)
    ELSE LET old == RowOf(todos, id)
             new == UpdatedRow(old, status, position, now)
         IN  IF StatusOrd(new.status) < StatusOrd(old.status)
             THEN Throws("BadRequestException", todos, seq)
             ELSE Returns(new, (todos \ {old}) \cup {new}, seq)

\* variant: the rows at or below the target in its new column move down
TodoService_updateStatusRenumbering(id, status, position) ==
    IF ~UpdateArgsOk(status, position)
    THEN Throws("PrismaClientValidationError", todos, seq)
    ELSE IF id \notin Ids(todos)
    THEN Throws("P2025", todos, seq)
    ELSE LET old == RowOf(todos, id)
             new == UpdatedRow(old, status, position, now)
             shift(r) == IF r.status = new.status /\ r.position >= new.position
                         THEN [r EXCEPT !.position = @ + 1] ELSE r
         IN  Returns(new, {shift(r) : r \in todos \ {old}} \cup {new}, seq)

TodoService_updateStatus(id, status, position) ==
    IF ~UpdateArgsOk(status, position)
    THEN Throws("PrismaClientValidationError", todos, seq)
    ELSE IF id \notin Ids(todos)
    THEN Throws("P2025", todos, seq)
    ELSE LET old == RowOf(todos, id)
             new == UpdatedRow(old, status, position, now)
         IN  Returns(new, (todos \ {old}) \cup {new}, seq)

\* updateStatus, as the client sends it: the arguments and the @updatedAt
\* stamp, taken when the query is built
UpdateQuery(id, status, position) ==
    [id |-> id, status |-> status, position |-> position, updatedAt |-> now]

\* variant: position is written only when the status does not change
RunUpdateStatusThenPosition(q) ==
    IF ~UpdateArgsOk(q.status, q.position)
    THEN Throws("PrismaClientValidationError", todos, seq)
    ELSE IF q.id \notin Ids(todos)
    THEN Throws("P2025", todos, seq)
    ELSE LET old == RowOf(todos, q.id)
             new == IF q.status # <<>> /\ q.status[1].val # old.status
                    THEN UpdatedRow(old, q.status, <<>>, q.updatedAt)
                    ELSE UpdatedRow(old, q.status, q.position, q.updatedAt)
         IN  Returns(new, (todos \ {old}) \cup {new}, seq)

\* variant: an UPDATE that finds no row inserts one
RunUpdateUpsert(q) ==
    IF ~UpdateArgsOk(q.status, q.position)
    THEN Throws("PrismaClientValidationError", todos, seq)
    ELSE LET old == IF q.id \in Ids(todos) THEN RowOf(todos, q.id)
                    ELSE [id |-> q.id, title |-> <<"a">>, description |-> <<>>,
                          status |-> "TODO", position |-> 0,
                          createdAt |-> q.updatedAt, updatedAt |-> q.updatedAt]
             new == UpdatedRow(old, q.status, q.position, q.updatedAt)
         IN  Returns(new, (todos \ {old}) \cup {new}, seq)

\* the UPDATE of a query, run as one statement on the table as it is then
RunUpdate(q) ==
    IF ~UpdateArgsOk(q.status, q.position)
    THEN Throws("PrismaClientValidationError", todos, seq)
    ELSE IF q.id \notin Ids(todos)
    THEN Throws("P2025", todos, seq)
    ELSE LET old == RowOf(todos, q.id)
             new == UpdatedRow(old, q.status, q.position, q.updatedAt)
         IN  Returns(new, (todos \ {old}) \cup {new}, seq)

\* variant: the delete takes the whole column of the row with it
TodoService_removeColumn(id) ==
    IF id \notin Ids(todos)
    THEN Throws("P2025", todos, seq)
    ELSE LET old == RowOf(todos, id)
         IN  Returns(old, {r \in todos : r.status # old.status}, seq)

TodoService_remove(id) ==
    IF id \notin Ids(todos)
    THEN Throws("P2025", todos, seq)
    ELSE LET old == RowOf(todos, id)
         IN  Returns(old, todos \ {old}, seq)

----------------------------------------------------------------------------
(* ZodValidationPipe, TransformInterceptor and the framework's mapping of  *)
(* exceptions to HTTP responses                                            *)

\* ZodValidationPipe.transform: the parsed value, or BadRequestException
ZodValidationPipe(body) ==
    IF SchemaAccepts(body)
    THEN [ok |-> TRUE, value |-> Parsed(body)]
    ELSE [ok |-> FALSE, exception |-> "BadRequestException"]

\* TransformInterceptor.intercept wraps what the handler resolves to
Envelope(data) == [success |-> TRUE, data |-> data, timestamp |-> now]

\* an HttpException answers with its own status; anything else thrown
\* out of a handler is answered 500 by the framework
StatusOf(exception) ==
    IF exception = "BadRequestException" THEN 400
    ELSE IF exception = "NotFoundException" THEN 404
    ELSE 500

\* the message of the pipe's BadRequestException (written without its
\* diacritics); the framework's own text for anything else
MessageOf(exception) ==
    IF exception = "BadRequestException" THEN "Du lieu khong hop le"
    ELSE IF exception = "NotFoundException" THEN "Cannot <method> <path>"
    ELSE "Internal server error"

\* an exception does not pass through the interceptor's map: the
\* framework writes the error body itself
ErrorBody(exception) ==
    [statusCode |-> StatusOf(exception), message |-> MessageOf(exception)]

Respond(op, successCode, r) ==
    IF r.ok
    THEN [op |-> op, code |-> successCode, exception |-> "none",
          body |-> Envelope(r.value)]
    ELSE [op |-> op, code |-> StatusOf(r.exception), exception |-> r.exception,
          body |-> ErrorBody(r.exception)]

----------------------------------------------------------------------------
(* TodoController: the outcome of one request in the current state         *)

Outcome(r, response) == [todos |-> r.todos, seq |-> r.seq, resp |-> response]

\* POST /todo
TodoController_create(body) ==
    LET v == ZodValidationPipe(body)
        r == IF v.ok THEN TodoService_create(v.value)
             ELSE Throws(v.exception, todos, seq)
    IN  Outcome(r, Respond("create", 201, r))

\* GET /todo
TodoController_findAll(scan) ==
    LET r == TodoService_findAll(scan)
    IN  Outcome(r, Respond("findAll", 200, r))

\* PATCH /todo/:id/move
TodoController_moveTask(id, updateData) ==
    LET r == TodoService_updateStatus(id, Field(updateData, "status"),
                                      Field(updateData, "position"))
    IN  Outcome(r, Respond("moveTask", 200, r))

\* DELETE /todo/:id
TodoController_remove(id) ==
    LET r == TodoService_remove(id)
    IN  Outcome(r, Respond("remove", 200, r))

----------------------------------------------------------------------------
(* Routing: a path is its fixed segments, the id that follows them (if     *)
(* any) and the segments after the id                                      *)

\* app.setGlobalPrefix('api')
GlobalPrefix == <<"api">>

\* @Controller('todo')
ControllerPath == <<"todo">>

\* the handler the router finds for a method and a path, "none" if no
\* route matches
RouteOf(method, path) ==
    IF path.segments # GlobalPrefix \o ControllerPath THEN "none"
    ELSE IF method = "POST" /\ path.id = <<>> /\ path.rest = <<>>
    THEN "create"
    ELSE IF method = "GET" /\ path.id = <<>> /\ path.rest = <<>>
    THEN "findAll"
    ELSE IF method = "PATCH" /\ path.id # <<>> /\ path.rest = <<"move">>
    THEN "moveTask"
    ELSE IF method = "DELETE" /\ path.id # <<>> /\ path.rest = <<>>
    THEN "remove"
    ELSE "none"

\* the outcome of one HTTP request: the handler of its route, or the
\* framework's NotFoundException (404) when there is none
Dispatch(request, scan) ==
    LET route == RouteOf(request.method, request.path)
    IN  IF route = "create" THEN TodoController_create(request.body)
        ELSE IF route = "findAll" THEN TodoController_findAll(scan)
        ELSE IF route = "moveTask"
        THEN TodoController_moveTask(request.path.id[1], request.body)
        ELSE IF route = "remove"
        THEN TodoController_remove(request.path.id[1])
        ELSE LET r == Throws("NotFoundException", todos, seq)
             IN  Outcome(r, Respond("none", 404, r))

----------------------------------------------------------------------------
(* Requests the clients send                                               *)

Bool(b) == [type |-> "boolean", val |-> b]

Options(S) == {<<>>} \cup {<<v>> : v \in S}

\* a JSON object with the given optional members; "completed" is a key
\* the schema does not know (the column the migration dropped)
JsonObject(t, d, s, p, x) ==
    LET opt(k) == CASE k = "title" -> t
                    [] k = "description" -> d
                    [] k = "status" -> s
                    [] k = "position" -> p
                    [] k = "completed" -> x
        present == {k \in SchemaKeys \cup {"completed"} : opt(k) # <<>>}
    IN  [k \in present |-> opt(k)[1]]

TitleInputs == {Str(<<>>), Str(<<" ">>), Str(<<"a">>)}
DescriptionInputs == {Str(<<"d">>), Num(0)}
StatusInputs == {Str("TODO"), Str("IN_PROGRESS"), Str("DONE"), Str("BOGUS")}
PositionInputs == {Num(-1), Num(1), Half(1)}

\* every shape of title, status, position and unknown key, and the bodies
\* that carry a description
CreateBodies ==
    {JsonObject(t, <<>>, s, p, x) :
        t \in Options(TitleInputs),
        s \in Options({Str("IN_PROGRESS"), Str("BOGUS")}),
        p \in Options(PositionInputs), x \in Options({Bool(FALSE)})}
    \cup {JsonObject(<<Str(<<"a">>)>>, <<d>>, <<>>, <<>>, <<>>) :
            d \in DescriptionInputs}

\* the well-formed bodies a board client sends
BoardCreateBodies ==
    {JsonObject(<<Str(<<"a">>)>>, <<>>, s, p, <<>>) :
        s \in Options(StatusInputs \ {Str("BOGUS")}),
        p \in Options({Num(0), Num(1)})}

MoveBodies ==
    {JsonObject(<<>>, <<>>, s, p, <<>>) :
        s \in Options(StatusInputs), p \in Options({Num(0), Num(1)})}

\* every shape of status and position a move request may carry
InputMoveBodies ==
    {JsonObject(<<>>, <<>>, s, p, <<>>) :
        s \in Options({Str("DONE"), Str("BOGUS")}),
        p \in Options(PositionInputs)}

\* the requests of a two-task walk over the board: a create with the title
\* alone, a create with status and position, a move to IN_PROGRESS
WriteSpec == <<"W", "r", "i", "t", "e", " ", "s", "p", "e", "c">>
Review == <<"R", "e", "v", "i", "e", "w">>

ScriptCreateA == JsonObject(<<Str(WriteSpec)>>, <<>>, <<>>, <<>>, <<>>)
ScriptCreateB ==
    JsonObject(<<Str(Review)>>, <<>>, <<Str("TODO")>>, <<Num(1)>>, <<>>)
ScriptMove ==
    JsonObject(<<>>, <<>>, <<Str("IN_PROGRESS")>>, <<Num(0)>>, <<>>)

ScriptCreateBodies == {ScriptCreateA, ScriptCreateB}
ScriptMoveBodies == {ScriptMove}

\* the requests of the clients that race
ConcCreateBodies == {JsonObject(<<Str(<<"a">>)>>, <<>>, <<>>, <<>>, <<>>)}

ConcMoveBodies ==
    {JsonObject(<<>>, <<>>, <<s>>, <<p>>, <<>>) :
        s \in {Str("TODO"), Str("DONE"), Str("BOGUS")},
        p \in {Num(0), Num(1)}}

RaceMoveBodies ==
    {JsonObject(<<>>, <<>>, <<s>>, <<Num(1)>>, <<>>) :
        s \in {Str("IN_PROGRESS"), Str("DONE")}}

HttpRequest(method, segments, id, rest, body) ==
    [method |-> method,
     path |-> [segments |-> segments, id |-> id, rest |-> rest],
     body |-> body]

NoBody == JsonObject(<<>>, <<>>, <<>>, <<>>, <<>>)

\* the frontend client: const API_URL = 'http://localhost:3000/todo'
API_URL == <<"todo">>

getTodos == HttpRequest("GET", API_URL, <<>>, <<>>, NoBody)

addTodo(title) ==
    HttpRequest("POST", API_URL, <<>>, <<>>,
                JsonObject(<<Str(title)>>, <<>>, <<>>, <<>>, <<>>))

deleteTodo(id) == HttpRequest("DELETE", API_URL, <<id>>, <<>>, NoBody)

FrontendRequests ==
    {getTodos} \cup {addTodo(<<"a">>)}
        \cup {deleteTodo(id) : id \in 1..MaxHttpId}

\* the requests of a client that follows the endpoint table of the README
ApiRequests ==
    {HttpRequest("GET", <<"api", "todo">>, <<>>, <<>>, NoBody)}
    \cup {HttpRequest("POST", <<"api", "todo">>, <<>>, <<>>, body) :
             body \in {JsonObject(<<Str(<<"a">>)>>, <<>>, s, <<>>, <<>>) :
                          s \in Options({Str("DONE")})}}
    \cup {HttpRequest("PATCH", <<"api", "todo">>, <<id>>, <<"move">>, body) :
             id \in 1..MaxHttpId,
             body \in {JsonObject(<<>>, <<>>, <<Str("IN_PROGRESS")>>,
                                  <<p>>, <<>>) : p \in {Num(0), Num(1)}}}
    \cup {HttpRequest("DELETE", <<"api", "todo">>, <<id>>, <<>>, NoBody) :
             id \in 1..MaxHttpId}

\* the ids in the request paths: every id handed out, and one never created
IdParams == 1..(MaxId + 1)

TimedIdParams == 1..(MaxTimedId + 1)

----------------------------------------------------------------------------
(* The system: requests are served one at a time against the table         *)

NoResponse == [op |-> "none", code |-> 0, exception |-> "none",
               body |-> [statusCode |-> 0, message |-> ""]]

Init ==
    /\ todos = {}
    /\ seq = 1
    /\ now = 0
    /\ req = <<>>
    /\ resp = NoResponse
    /\ created = {}
    /\ deleted = {}
    /\ inflight = <<>>

Apply(o) ==
    /\ todos' = o.todos
    /\ seq' = o.seq
    /\ resp' = o.resp
    /\ created' = IF o.resp.op = "create" /\ o.resp.code = 201
                  THEN created \cup {o.resp.body.data.id}
                  ELSE created
    /\ deleted' = IF o.resp.op = "remove" /\ o.resp.code = 200
                  THEN deleted \cup {o.resp.body.data.id}
                  ELSE deleted
    /\ UNCHANGED <<now, inflight>>

\* POST /todo, while the sequence has an id below the bound
Create(body, maxId) ==
    /\ seq <= maxId
    /\ Apply(TodoController_create(body))
    /\ UNCHANGED req

\* GET /todo
FindAll(scan) == Apply(TodoController_findAll(scan)) /\ UNCHANGED req

\* PATCH /todo/:id/move
MoveTask(id, updateData) ==
    Apply(TodoController_moveTask(id, updateData)) /\ UNCHANGED req

\* DELETE /todo/:id
Remove(id) == Apply(TodoController_remove(id)) /\ UNCHANGED req

Tick ==
    /\ now < MaxClock
    /\ now' = now + 1
    /\ UNCHANGED <<todos, seq, req, resp, created, deleted, inflight>>

\* the board, its requests served within one reading of the clock
Next ==
    \/ \E body \in BoardCreateBodies : Create(body, MaxId)
    \/ \E scan \in ScanOrders(todos) : FindAll(scan)
    \/ \E id \in IdParams, updateData \in MoveBodies : MoveTask(id, updateData)
    \/ \E id \in IdParams : Remove(id)

Spec == Init /\ [][Next]_vars

\* a smaller board, the clock advancing between requests
NextClock ==
    \/ \E body \in BoardCreateBodies : Create(body, MaxTimedId)
    \/ \E scan \in ScanOrders(todos) : FindAll(scan)
    \/ \E id \in TimedIdParams, updateData \in MoveBodies :
          MoveTask(id, updateData)
    \/ \E id \in TimedIdParams : Remove(id)
    \/ Tick

SpecClock == Init /\ [][NextClock]_vars

\* the requests of the walk, sent in any order and any number of times
NextScript ==
    \/ \E body \in ScriptCreateBodies : Create(body, MaxScriptId)
    \/ \E scan \in ScanOrders(todos) : FindAll(scan)
    \/ \E id \in 1..MaxScriptId, updateData \in ScriptMoveBodies :
          MoveTask(id, updateData)
    \/ \E id \in 1..MaxScriptId : Remove(id)

SpecScript == Init /\ [][NextScript]_vars

\* one HTTP request goes through the router
Serve(request, scan) ==
    /\ RouteOf(request.method, request.path) = "create" => seq <= MaxHttpId
    /\ Apply(Dispatch(request, scan))
    /\ UNCHANGED req

FrontendCall(request, scan) == Serve(request, scan)

ApiCall(request, scan) == Serve(request, scan)

\* the server with its router, under the frontend client and an API client
NextHttp ==
    \/ \E request \in FrontendRequests, scan \in ScanOrders(todos) :
          FrontendCall(request, scan)
    \/ \E request \in ApiRequests, scan \in ScanOrders(todos) :
          ApiCall(request, scan)

SpecHttp == Init /\ [][NextHttp]_vars

\* the same handlers, the request body kept beside the response
CreateRecorded(body) ==
    /\ SchemaAccepts(body) => seq <= MaxInputId
    /\ Apply(TodoController_create(body))
    /\ req' = body

MoveRecorded(id, updateData) ==
    Apply(TodoController_moveTask(id, updateData)) /\ req' = updateData

RemoveRecorded(id) == Apply(TodoController_remove(id)) /\ req' = <<>>

\* the server under every shape of create and move request
NextInput ==
    \/ \E body \in CreateBodies : CreateRecorded(body)
    \/ \E id \in 1..MaxInputId, updateData \in InputMoveBodies :
          MoveRecorded(id, updateData)
    \/ \E id \in 1..MaxInputId : RemoveRecorded(id)

SpecInput == Init /\ [][NextInput]_vars

\* remove, as the client sends it: the where alone
DeleteQuery(id) == [id |-> id]

\* the request in flight h is a move (its query has data), not a delete
IsMoveCall(h) == "status" \in DOMAIN inflight[h].query

\* PATCH /todo/:id/move arrives: the handler builds the query; the request
\* is then in flight (existed: whether the id had a row on arrival)
MoveReceived(id, updateData) ==
    /\ Len(inflight) < MaxCalls
    /\ inflight' = Append(inflight,
           [query |-> UpdateQuery(id, Field(updateData, "status"),
                                  Field(updateData, "position")),
            existed |-> id \in Ids(todos),
            turn |-> 0,
            resp |-> NoResponse])
    /\ UNCHANGED <<todos, seq, now, req, resp, created, deleted>>

\* the database runs the UPDATE of the request in flight h and the handler
\* answers; turn is the place of this write among the writes so far
MoveCommitted(h) ==
    /\ inflight[h].turn = 0
    /\ IsMoveCall(h)
    /\ LET r == RunUpdate(inflight[h].query)
           response == Respond("moveTask", 200, r)
           done == {k \in 1..Len(inflight) : inflight[k].turn > 0}
       IN  /\ todos' = r.todos
           /\ resp' = response
           /\ inflight' = [inflight EXCEPT ![h].turn = Cardinality(done) + 1,
                                           ![h].resp = response]
    /\ UNCHANGED <<seq, now, req, created, deleted>>

\* move requests whose handlers overlap, within one reading of the clock:
\* any request in flight may be the next to reach the database
NextConc ==
    \/ \E body \in ConcCreateBodies : Create(body, MaxConcId)
    \/ \E id \in 1..MaxConcId, updateData \in ConcMoveBodies :
          MoveReceived(id, updateData)
    \/ \E h \in 1..Len(inflight) : MoveCommitted(h)

SpecConc == Init /\ [][NextConc]_vars

\* DELETE /todo/:id arrives: the request is then in flight
DeleteReceived(id) ==
    /\ Len(inflight) < MaxCalls
    /\ inflight' = Append(inflight,
           [query |-> DeleteQuery(id),
            existed |-> id \in Ids(todos),
            turn |-> 0,
            resp |-> NoResponse])
    /\ UNCHANGED <<todos, seq, now, req, resp, created, deleted>>

\* the database runs the DELETE of the request in flight h and the handler
\* answers
DeleteCommitted(h) ==
    /\ inflight[h].turn = 0
    /\ ~IsMoveCall(h)
    /\ LET r == TodoService_remove(inflight[h].query.id)
           response == Respond("remove", 200, r)
           done == {k \in 1..Len(inflight) : inflight[k].turn > 0}
       IN  /\ todos' = r.todos
           /\ resp' = response
           /\ deleted' = IF r.ok THEN deleted \cup {inflight[h].query.id}
                         ELSE deleted
           /\ inflight' = [inflight EXCEPT ![h].turn = Cardinality(done) + 1,
                                           ![h].resp = response]
    /\ UNCHANGED <<seq, now, req, created>>

\* moves and deletes whose handlers overlap, within one reading of the clock
NextRace ==
    \/ \E body \in ConcCreateBodies : Create(body, MaxConcId)
    \/ \E id \in 1..MaxConcId, updateData \in RaceMoveBodies :
          MoveReceived(id, updateData)
    \/ \E id \in 1..MaxConcId : DeleteReceived(id)
    \/ \E h \in 1..Len(inflight) : MoveCommitted(h)
    \/ \E h \in 1..Len(inflight) : DeleteCommitted(h)

SpecRace == Init /\ [][NextRace]_vars

----------------------------------------------------------------------------
(* Vocabulary of the claims                                                *)

\* the board's column order: Todo < InProgress < Done
BoardRank(s) ==
    CASE s = "TODO" -> 1
      [] s = "IN_PROGRESS" -> 2
      [] s = "DONE" -> 3

IsClientError(response) == response.code \in 400..499

IsSuccess(response) == response.code \in 200..299

IsValidationError(response) ==
    /\ response.exception = "BadRequestException"
    /\ IsClientError(response)

\* the store's "record not found" condition
IsNotFound(response) == response.exception = "P2025"

StoreUnchanged(o) == o.todos = todos /\ o.seq = seq

InClosedSet(v) == IsString(v) /\ v.val \in {"TODO", "IN_PROGRESS", "DONE"}

IsValidPosition(v) == IsNumber(v) /\ v.integral /\ v.val >= 0

\* a move request with a status of the closed set and a valid position
IsValidMove(body) ==
    /\ Has(body, "status") /\ InClosedSet(body["status"])
    /\ Has(body, "position") /\ IsValidPosition(body["position"])

IsBlank(chars) == \A i \in 1..Len(chars) : chars[i] = " "

\* a request body whose position is a negative number
HasNegativePosition(body) ==
    /\ Has(body, "position")
    /\ IsNumber(body["position"])
    /\ body["position"].val < 0

----------------------------------------------------------------------------
(* C1: every list findAll returns is sorted by status in the order         *)
(* TODO < IN_PROGRESS < DONE and, within one status, by position ascending *)

C1_ListSortedByStatusThenPosition ==
    resp.op = "findAll" =>
        LET l == resp.body.data
        IN  \A i, j \in 1..Len(l) :
                i < j =>
                    \/ BoardRank(l[i].status) < BoardRank(l[j].status)
                    \/ /\ l[i].status = l[j].status
                       /\ l[i].position <= l[j].position

C1_Witness ==
    /\ resp.op = "findAll"
    /\ Len(resp.body.data) = 3
    /\ resp.body.data[1].status = "TODO"
    /\ resp.body.data[2].status = "IN_PROGRESS"
    /\ resp.body.data[2].position = 0
    /\ resp.body.data[3].status = "IN_PROGRESS"
    /\ resp.body.data[3].position = 1

----------------------------------------------------------------------------
(* C2 as stated: after a successful move(id, s, p) of an existing task,    *)
(* every list findAll can return shows the task with status s, position p  *)
(* and an updatedAt strictly greater than the one it had before the move   *)

C2_MoveThenListStrictlyLater ==
    \A id \in Ids(todos), body \in MoveBodies :
        LET o == TodoController_moveTask(id, body)
        IN  (IsValidMove(body) /\ IsSuccess(o.resp)) =>
                \A l \in ListAllOf(o.todos) :
                    \E i \in 1..Len(l) :
                        /\ l[i].id = id
                        /\ l[i].status = body["status"].val
                        /\ l[i].position = body["position"].val
                        /\ l[i].updatedAt > RowOf(todos, id).updatedAt

(* C2 as amended: after a successful move(id, s, p) of an existing task,   *)
(* every list findAll can return shows the task exactly once, with status  *)
(* s, position p and updatedAt equal to the clock reading of the move,     *)
(* which is greater than or equal to the updatedAt it had before           *)

C2_MoveThenList ==
    \A id \in Ids(todos), body \in MoveBodies :
        LET o == TodoController_moveTask(id, body)
        IN  (IsValidMove(body) /\ IsSuccess(o.resp)) =>
                \A l \in ListAllOf(o.todos) :
                    /\ Cardinality({i \in 1..Len(l) : l[i].id = id}) = 1
                    /\ \E i \in 1..Len(l) :
                           /\ l[i].id = id
                           /\ l[i].status = body["status"].val
                           /\ l[i].position = body["position"].val
                           /\ l[i].updatedAt = now
                           /\ l[i].updatedAt >= RowOf(todos, id).updatedAt

C2_Witness ==
    /\ resp.op = "moveTask"
    /\ IsSuccess(resp)
    /\ resp.body.data \in todos
    /\ resp.body.data.status = "DONE"
    /\ resp.body.data.position = 1
    /\ resp.body.data.updatedAt > resp.body.data.createdAt

----------------------------------------------------------------------------
(* C3: a move whose id names no row (never created, or deleted) fails, and *)
(* leaves the table and the id sequence as they were; with a well-formed   *)
(* status and position the failure is the store's record-not-found         *)

C3_MoveMissingIdFails ==
    \A id \in TimedIdParams \ Ids(todos), body \in MoveBodies :
        LET o == TodoController_moveTask(id, body)
        IN  /\ ~IsSuccess(o.resp)
            /\ StoreUnchanged(o)
            /\ IsValidMove(body) => IsNotFound(o.resp)

C3_Witness ==
    /\ resp.op = "moveTask"
    /\ IsNotFound(resp)
    /\ todos # {}

----------------------------------------------------------------------------
(* C4: a successful delete(id) leaves no row with that id, and a delete of *)
(* an id already deleted fails with the record-not-found condition,        *)
(* answered as a client error, and leaves the table as it was              *)

C4_DeleteThenDeleteAgain ==
    \A id \in IdParams :
        LET o == TodoController_remove(id)
        IN  /\ IsSuccess(o.resp) => \A l \in ListAllOf(o.todos) :
                                       \A i \in 1..Len(l) : l[i].id # id
            /\ id \in created \ Ids(todos) =>
                   /\ IsNotFound(o.resp)
                   /\ IsClientError(o.resp)
                   /\ StoreUnchanged(o)

----------------------------------------------------------------------------
(* C5: a create whose title is missing, empty or only white space is       *)
(* rejected as a validation error and adds no row and takes no id          *)

C5_BlankTitleRejected ==
    \A body \in CreateBodies :
        LET o == TodoController_create(body)
        IN  (~Has(body, "title") \/ ~IsString(body["title"])
                \/ IsBlank(body["title"].val)) =>
                /\ IsValidationError(o.resp)
                /\ StoreUnchanged(o)

----------------------------------------------------------------------------
(* C6: the id a successful create returns was returned by no earlier       *)
(* successful create                                                       *)

C6_CreatedIdIsFresh ==
    \A body \in BoardCreateBodies :
        LET o == TodoController_create(body)
        IN  IsSuccess(o.resp) => o.resp.body.data.id \notin created

C6_Witness ==
    /\ resp.op = "create"
    /\ IsSuccess(resp)
    /\ Cardinality(created) >= 2
    /\ created \ Ids(todos) # {}

----------------------------------------------------------------------------
(* C7: a successful create stores the row it returns; with status omitted  *)
(* the row has status TODO, with position omitted position 0, and a        *)
(* supplied valid status or position is carried over unchanged             *)

----------------------------------------------------------------------------
(* C8: a create whose body has a key other than title, description, status *)
(* and position is rejected as a validation error, adds no row and takes   *)
(* no id                                                                   *)

C8_UnknownFieldRejected ==
    \A body \in CreateBodies :
        LET o == TodoController_create(body)
        IN  ~(DOMAIN body \subseteq {"title", "description", "status", "position"}) =>
                /\ IsValidationError(o.resp)
                /\ StoreUnchanged(o)

C8_Witness ==
    /\ resp.op = "create"
    /\ req = [title |-> Str(<<"a">>), completed |-> Bool(FALSE)]
    /\ IsValidationError(resp)
    /\ todos = {}

----------------------------------------------------------------------------
(* C9: a create whose status is not one of TODO, IN_PROGRESS, DONE is      *)
(* rejected as a validation error, adds no row and takes no id             *)

C9_UnknownStatusRejected ==
    \A body \in CreateBodies :
        LET o == TodoController_create(body)
        IN  (Has(body, "status") /\ ~InClosedSet(body["status"])) =>
                /\ IsValidationError(o.resp)
                /\ StoreUnchanged(o)

C9_Witness ==
    /\ resp.op = "create"
    /\ req = [title |-> Str(<<"a">>), status |-> Str("BOGUS")]
    /\ IsValidationError(resp)
    /\ todos = {}

----------------------------------------------------------------------------
(* C10: a move of an existing task whose status is missing or outside the  *)
(* closed set is answered as a client error and leaves the task's status,  *)
(* position and updatedAt as they were                                     *)

C10_MoveInvalidStatusRejected ==
    \A id \in Ids(todos), body \in MoveBodies :
        LET o == TodoController_moveTask(id, body)
        IN  (~Has(body, "status") \/ ~InClosedSet(body["status"])) =>
                /\ IsClientError(o.resp)
                /\ RowOf(todos, id) \in o.todos

----------------------------------------------------------------------------
(* C11: a create whose position is negative, and a move of an existing     *)
(* task whose position is negative, are each rejected as a validation      *)
(* error and leave the table and the id sequence as they were              *)

C11_NegativePositionRejected ==
    /\ \A body \in CreateBodies :
           LET o == TodoController_create(body)
           IN  HasNegativePosition(body) =>
                   /\ IsValidationError(o.resp)
                   /\ StoreUnchanged(o)
    /\ \A id \in Ids(todos), body \in InputMoveBodies :
           LET o == TodoController_moveTask(id, body)
           IN  HasNegativePosition(body) =>
                   /\ IsValidationError(o.resp)
                   /\ StoreUnchanged(o)

----------------------------------------------------------------------------
(* C12: in every reachable state, whatever create, move and delete         *)
(* requests were sent, each row has one status and it is one of TODO,      *)
(* IN_PROGRESS, DONE                                                       *)

C12_StatusInClosedSet ==
    \A r \in todos : r.status \in {"TODO", "IN_PROGRESS", "DONE"}

C12_Witness ==
    /\ resp.op = "moveTask"
    /\ ~IsSuccess(resp)
    /\ Has(req, "status")
    /\ req["status"] = Str("BOGUS")
    /\ \E r \in todos : r.status = "DONE"

----------------------------------------------------------------------------
(* C13: in every reachable state, each row's position is a non-negative    *)
(* integer                                                                 *)

C13_PositionsNonNegative ==
    \A r \in todos : r.position >= 0

----------------------------------------------------------------------------
(* C14: a move of an existing task to a status of the closed set, with a   *)
(* valid position, succeeds whatever status the task has now (the same     *)
(* one, a later one or an earlier one) and leaves the task in that status  *)

C14_MoveBetweenAnyStatuses ==
    \A id \in Ids(todos), body \in MoveBodies :
        LET o == TodoController_moveTask(id, body)
        IN  IsValidMove(body) =>
                /\ IsSuccess(o.resp)
                /\ o.resp.body.data.status = body["status"].val
                /\ RowOf(o.todos, id).status = body["status"].val

\* a task just moved to DONE, and its move back to TODO succeeds
C14_Witness ==
    /\ resp.op = "moveTask"
    /\ IsSuccess(resp)
    /\ resp.body.data.status = "DONE"
    /\ resp.body.data \in todos
    /\ LET back == [status |-> Str("TODO"), position |-> Num(0)]
           o == TodoController_moveTask(resp.body.data.id, back)
       IN  /\ back \in MoveBodies
           /\ IsSuccess(o.resp)
           /\ RowOf(o.todos, resp.body.data.id).status = "TODO"

----------------------------------------------------------------------------
(* C15: a successful create adds exactly one row and leaves every other    *)
(* row as it was; a successful move changes nothing but the status,        *)
(* position and updatedAt of the row it names, and no other row at all     *)

C15_OneRowTouched ==
    /\ \A body \in BoardCreateBodies :
           LET o == TodoController_create(body)
           IN  IsSuccess(o.resp) =>
                   /\ todos \subseteq o.todos
                   /\ o.todos \ todos = {o.resp.body.data}
                   /\ o.resp.body.data.id \notin Ids(todos)
    /\ \A id \in Ids(todos), body \in MoveBodies :
           LET o == TodoController_moveTask(id, body)
           IN  IsSuccess(o.resp) =>
                   /\ \A r \in todos : r.id # id => r \in o.todos
                   /\ \A r \in o.todos : r.id # id => r \in todos
                   /\ Cardinality({r \in o.todos : r.id = id}) = 1
                   /\ LET old == RowOf(todos, id)
                          new == RowOf(o.todos, id)
                      IN  /\ new.title = old.title
                          /\ new.description = old.description
                          /\ new.createdAt = old.createdAt

\* after a move, another row sits at the same status and position
C15_Witness ==
    /\ resp.op = "moveTask"
    /\ IsSuccess(resp)
    /\ resp.body.data \in todos
    /\ \E r \in todos :
           /\ r.id # resp.body.data.id
           /\ r.status = resp.body.data.status
           /\ r.position = resp.body.data.position

----------------------------------------------------------------------------
(* C16: a delete of an existing task succeeds, returns the row as the      *)
(* table held it (so, right after a successful create or move, the row     *)
(* that request returned) and removes that row and no other                *)

C16_DeleteReturnsRow ==
    /\ \A id \in Ids(todos) :
           LET o == TodoController_remove(id)
           IN  /\ IsSuccess(o.resp)
               /\ o.resp.body.data = RowOf(todos, id)
               /\ o.todos = todos \ {RowOf(todos, id)}
               /\ Cardinality(o.todos) = Cardinality(todos) - 1
    /\ (resp.op \in {"create", "moveTask"} /\ IsSuccess(resp)) =>
           TodoController_remove(resp.body.data.id).resp.body.data
               = resp.body.data

C16_Witness ==
    /\ resp.op = "remove"
    /\ IsSuccess(resp)
    /\ resp.body.data.status = "DONE"
    /\ resp.body.data.position = 1
    /\ resp.body.data.id \notin Ids(todos)
    /\ Cardinality(todos) = 2

----------------------------------------------------------------------------
(* C17: in every step, a row that stays in the table keeps its id, title,  *)
(* description and createdAt, and it changes at all only in a successful   *)
(* move of that row; no two rows ever share an id                          *)

C17_Step ==
    /\ Cardinality(Ids(todos')) = Cardinality(todos')
    /\ \A r \in todos : \A r2 \in todos' :
           r2.id = r.id =>
               /\ r2.title = r.title
               /\ r2.description = r.description
               /\ r2.createdAt = r.createdAt
               /\ r2 # r =>
                      /\ resp'.op = "moveTask"
                      /\ IsSuccess(resp')
                      /\ resp'.body.data = r2

C17_OnlyMoveChangesARow == [][C17_Step]_vars

C17_Witness ==
    /\ resp.op = "moveTask"
    /\ IsSuccess(resp)
    /\ \E r \in todos :
           /\ r = resp.body.data
           /\ r.status = "IN_PROGRESS"
           /\ r.createdAt = 0
           /\ r.updatedAt = MaxClock

----------------------------------------------------------------------------
(* C18: once a delete of an id has succeeded, no later step brings a row   *)
(* with that id back, no list shows it, and no create is given that id     *)

C18_Step ==
    /\ \A id \in created \ Ids(todos) :
           /\ id \notin Ids(todos')
           /\ resp'.op = "findAll" =>
                  \A i \in 1..Len(resp'.body.data) : resp'.body.data[i].id # id
           /\ (resp'.op = "create" /\ IsSuccess(resp')) =>
                  resp'.body.data.id # id
    /\ (resp'.op = "remove" /\ IsSuccess(resp')) =>
           /\ resp'.body.data.id \in created
           /\ resp'.body.data.id \notin Ids(todos')

C18_DeletedIdNeverReturns == [][C18_Step]_vars

C18_Witness ==
    /\ resp.op = "create"
    /\ IsSuccess(resp)
    /\ todos = {resp.body.data}
    /\ \E id \in created \ Ids(todos) : id < resp.body.data.id

----------------------------------------------------------------------------
(* C19: of the move requests on one existing task whose handlers overlap,  *)
(* every one with a status of the closed set and a valid position          *)
(* succeeds, none is answered with a conflict, each is answered with the   *)
(* pair it wrote, and the row holds the status and the position of the     *)
(* request whose write came last, both from that one request               *)

\* the request in flight h carries a closed-set status and a valid position
C19_WellFormed(h) ==
    /\ inflight[h].query.status # <<>>
    /\ InClosedSet(inflight[h].query.status[1])
    /\ inflight[h].query.position # <<>>
    /\ IsValidPosition(inflight[h].query.position[1])

\* ... and it named an existing task and has been answered
C19_Answered(h) ==
    /\ inflight[h].turn > 0
    /\ inflight[h].existed
    /\ C19_WellFormed(h)

C19_LastWriteWins ==
    \A h \in 1..Len(inflight) :
        C19_Answered(h) =>
            LET q == inflight[h].query
                later == {k \in 1..Len(inflight) :
                             /\ C19_WellFormed(k)
                             /\ inflight[k].query.id = q.id
                             /\ inflight[k].turn > inflight[h].turn}
            IN  /\ IsSuccess(inflight[h].resp)
                /\ inflight[h].resp.body.data.status = q.status[1].val
                /\ inflight[h].resp.body.data.position = q.position[1].val
                /\ later = {} =>
                       /\ q.id \in Ids(todos)
                       /\ RowOf(todos, q.id).status = q.status[1].val
                       /\ RowOf(todos, q.id).position = q.position[1].val

\* two moves of task 1, the first to arrive written last: its pair stands
\* and the other's is lost
C19_Witness ==
    /\ Len(inflight) = 2
    /\ C19_Answered(1)
    /\ C19_Answered(2)
    /\ inflight[1].query.id = inflight[2].query.id
    /\ inflight[1].turn = 2
    /\ inflight[2].turn = 1
    /\ IsSuccess(inflight[1].resp)
    /\ IsSuccess(inflight[2].resp)
    /\ inflight[1].query.status # inflight[2].query.status
    /\ inflight[1].query.position # inflight[2].query.position
    /\ RowOf(todos, inflight[1].query.id).status
           = inflight[1].query.status[1].val
    /\ RowOf(todos, inflight[1].query.id).position
           = inflight[1].query.position[1].val

----------------------------------------------------------------------------
(* C20: the body of every response, to a request that succeeded or failed, *)
(* is an envelope of exactly success, data and timestamp; success is true  *)
(* and data the result when the request succeeded, success is false and    *)
(* data the error message when it failed                                   *)

C20_EveryResponseInEnvelope ==
    resp.op # "none" =>
        /\ DOMAIN resp.body = {"success", "data", "timestamp"}
        /\ resp.body.success = IsSuccess(resp)
        /\ ~IsSuccess(resp) => resp.body.data = MessageOf(resp.exception)

----------------------------------------------------------------------------
(* C21: a move or a delete of an id that has no row is answered as a       *)
(* client error, never as a server error; a rejected body is answered as   *)
(* a client error; and a request is answered as a success exactly when     *)
(* nothing was thrown                                                      *)

C21_FailuresTyped ==
    /\ \A id \in IdParams \ Ids(todos) :
           LET o == TodoController_remove(id)
           IN  /\ ~IsSuccess(o.resp)
               /\ IsNotFound(o.resp)
               /\ IsClientError(o.resp)
    /\ \A id \in IdParams \ Ids(todos), body \in MoveBodies :
           LET o == TodoController_moveTask(id, body)
           IN  IsValidMove(body) =>
                   /\ ~IsSuccess(o.resp)
                   /\ IsNotFound(o.resp)
                   /\ IsClientError(o.resp)
    /\ resp.op # "none" => (IsSuccess(resp) <=> resp.exception = "none")
    /\ resp.exception = "BadRequestException" => IsClientError(resp)

----------------------------------------------------------------------------
(* C22: a list request changes neither the table nor the id sequence, and  *)
(* a list request that follows a list request with no write in between is  *)
(* answered with the same sequence of rows, ties included                  *)

C22_Step ==
    resp'.op = "findAll" =>
        /\ todos' = todos
        /\ seq' = seq
        /\ resp.op = "findAll" => resp'.body.data = resp.body.data

C22_ListRepeatable == [][C22_Step]_vars

----------------------------------------------------------------------------
(* C23: from the empty store, create {title "Write spec"} returns task A   *)
(* with id 1, status TODO, position 0; create {title "Review", status      *)
(* TODO, position 1} returns B; the list is then [A, B]; move(1,           *)
(* IN_PROGRESS, 0) makes A IN_PROGRESS at 0 and the list [B, A];           *)
(* delete(2) removes B and the list is then [A]                            *)

\* what the walk looks at in a row
C23_Shown(r) ==
    [id |-> r.id, title |-> r.title, status |-> r.status,
     position |-> r.position]

C23_ShownAll(rows) == {C23_Shown(r) : r \in rows}

C23_A == [id |-> 1, title |-> WriteSpec, status |-> "TODO", position |-> 0]
C23_B == [id |-> 2, title |-> Review, status |-> "TODO", position |-> 1]
C23_MovedA == [C23_A EXCEPT !.status = "IN_PROGRESS"]

\* every list findAll may return for the table shows exactly this
C23_ListIs(shown) ==
    \A l \in ListAllOf(todos) : [i \in 1..Len(l) |-> C23_Shown(l[i])] = shown

C23_Scenario ==
    /\ (todos = {} /\ seq = 1) =>
           LET o == TodoController_create(ScriptCreateA)
           IN  /\ IsSuccess(o.resp)
               /\ C23_Shown(o.resp.body.data) = C23_A
               /\ C23_ShownAll(o.todos) = {C23_A}
               /\ o.seq = 2
    /\ (C23_ShownAll(todos) = {C23_A} /\ seq = 2) =>
           LET o == TodoController_create(ScriptCreateB)
           IN  /\ IsSuccess(o.resp)
               /\ C23_Shown(o.resp.body.data) = C23_B
               /\ C23_ShownAll(o.todos) = {C23_A, C23_B}
    /\ C23_ShownAll(todos) = {C23_A, C23_B} =>
           /\ C23_ListIs(<<C23_A, C23_B>>)
           /\ LET o == TodoController_moveTask(1, ScriptMove)
              IN  /\ IsSuccess(o.resp)
                  /\ C23_Shown(o.resp.body.data) = C23_MovedA
                  /\ C23_ShownAll(o.todos) = {C23_MovedA, C23_B}
    /\ C23_ShownAll(todos) = {C23_MovedA, C23_B} =>
           /\ C23_ListIs(<<C23_B, C23_MovedA>>)
           /\ LET o == TodoController_remove(2)
              IN  /\ IsSuccess(o.resp)
                  /\ C23_Shown(o.resp.body.data) = C23_B
                  /\ C23_ShownAll(o.todos) = {C23_MovedA}
    /\ C23_ShownAll(todos) = {C23_MovedA} => C23_ListIs(<<C23_MovedA>>)

\* the end of the walk: both tasks created, A moved, B deleted, A listed
C23_Witness ==
    /\ resp.op = "findAll"
    /\ Len(resp.body.data) = 1
    /\ C23_Shown(resp.body.data[1]) = C23_MovedA
    /\ created = {1, 2}
    /\ deleted = {2}
    /\ seq = 3

----------------------------------------------------------------------------
(* C24: a create stores the position of its body, or 0 when the body has   *)
(* none, and a move the position of its body, whether or not another row   *)
(* of that status already has the position; neither is refused for it      *)

----------------------------------------------------------------------------
(* C25: the rows of the table are the tasks created and not deleted, one   *)
(* row each, and a list shows exactly the rows of the table, each once,    *)
(* as the table holds them                                                 *)

C25_ListShowsLiveTasks ==
    /\ Ids(todos) = created \ deleted
    /\ Cardinality(Ids(todos)) = Cardinality(todos)
    /\ resp.op = "findAll" =>
           LET l == resp.body.data
           IN  /\ Len(l) = Cardinality(todos)
               /\ {l[i] : i \in 1..Len(l)} = todos

C25_Witness ==
    /\ resp.op = "findAll"
    /\ Len(resp.body.data) = 2
    /\ deleted # {}
    /\ \E i \in 1..2 :
           /\ resp.body.data[i].status = "DONE"
           /\ resp.body.data[i].position = 1

----------------------------------------------------------------------------
(* C26: of a move and a delete of one existing task whose handlers         *)
(* overlap, either the move is written first, succeeds, and the delete     *)
(* returns the row as the move left it, or the delete is run first and     *)
(* the move fails with record-not-found; either way the row is gone        *)
(* afterwards and the move does not bring it back                          *)

C26_Move(h) ==
    IsMoveCall(h) /\ inflight[h].existed /\ inflight[h].turn > 0

C26_Delete(h) ==
    ~IsMoveCall(h) /\ inflight[h].existed /\ inflight[h].turn > 0

C26_MoveRacesDelete ==
    \A m, d \in 1..Len(inflight) :
        (/\ C26_Move(m)
         /\ C26_Delete(d)
         /\ inflight[m].query.id = inflight[d].query.id) =>
            LET id == inflight[m].query.id
                calls == {k \in 1..Len(inflight) :
                             inflight[k].query.id = id /\ inflight[k].turn > 0}
                \* deletes of the task run before d, moves written between
                \* m and d
                deletesBefore == {k \in calls :
                    ~IsMoveCall(k) /\ inflight[k].turn < inflight[d].turn}
                movesBetween == {k \in calls :
                    /\ IsMoveCall(k)
                    /\ inflight[k].turn > inflight[m].turn
                    /\ inflight[k].turn < inflight[d].turn}
            IN  /\ id \notin Ids(todos)
                /\ (inflight[m].turn < inflight[d].turn /\ deletesBefore = {}) =>
                       /\ IsSuccess(inflight[m].resp)
                       /\ IsSuccess(inflight[d].resp)
                       /\ movesBetween = {} =>
                              inflight[d].resp.body.data
                                  = inflight[m].resp.body.data
                /\ inflight[d].turn < inflight[m].turn =>
                       /\ ~IsSuccess(inflight[m].resp)
                       /\ IsNotFound(inflight[m].resp)
                       /\ deletesBefore = {} => IsSuccess(inflight[d].resp)

\* the move arrived first, the delete was run first: the move found no row
C26_Witness ==
    /\ Len(inflight) = 2
    /\ C26_Move(1)
    /\ C26_Delete(2)
    /\ inflight[1].query.id = inflight[2].query.id
    /\ inflight[2].turn = 1
    /\ inflight[1].turn = 2
    /\ IsSuccess(inflight[2].resp)
    /\ IsNotFound(inflight[1].resp)
    /\ inflight[1].query.id \in deleted
    /\ inflight[1].query.id \notin Ids(todos)

----------------------------------------------------------------------------
(* C27: each request of the frontend client (getTodos, addTodo,            *)
(* deleteTodo) has a method and a path for which the backend, with its     *)
(* global prefix api, has a route, so none is answered 404                 *)

C27_FrontendRequestsServed ==
    \A request \in FrontendRequests :
        /\ RouteOf(request.method, request.path) # "none"
        /\ \A scan \in ScanOrders(todos) :
               Dispatch(request, scan).resp.code # 404

====
